---- MODULE Spec2Model ----
(***************************************************************************)
(* Expression semantic analysis of the saltwater C front end               *)
(* (src/parser/src/analyze/expr.rs).                                       *)
(*                                                                         *)
(* Types, literals, untyped ast::Expr nodes and typed hir::Expr nodes are  *)
(* records tagged by a field k.  An Expr is [expr, ctype, lval]; source    *)
(* locations are not modelled (no rule of the pass reads them).            *)
(* The Analyzer is the record [scope, metadata, error_handler, abort]:     *)
(* abort is set when the Rust code would panic (panic!, unimplemented!,    *)
(* unreachable!, assert!), after which the pass returns nothing.           *)
(***************************************************************************)
EXTENDS Integers, Sequences, FiniteSets, TLC

VARIABLES scope, metadata, error_handler, pc, input, output

vars == <<scope, metadata, error_handler, pc, input, output>>

----------------------------------------------------------------------------
(* Bounds of the model.                                                    *)

\* integer literals range over 0..MaxLit (0 is the null pointer constant)
MaxLit == 1

----------------------------------------------------------------------------
(* data::types::Type                                                       *)

Type_Void == [k |-> "Void"]
Type_Bool == [k |-> "Bool"]
Type_Char(s) == [k |-> "Char", sign |-> s]
Type_Short(s) == [k |-> "Short", sign |-> s]
Type_Int(s) == [k |-> "Int", sign |-> s]
Type_Long(s) == [k |-> "Long", sign |-> s]
Type_Float == [k |-> "Float"]
Type_Double == [k |-> "Double"]
Type_Error == [k |-> "Error"]
NoQualifiers == [c_const |-> FALSE]
ConstQualifiers == [c_const |-> TRUE]
Type_Pointer(to, q) == [k |-> "Pointer", to |-> to, qualifiers |-> q]
Fixed(n) == [k |-> "Fixed", n |-> n]
Unbounded == [k |-> "Unbounded"]
Type_Array(to, size) == [k |-> "Array", to |-> to, size |-> size]
Type_Function(sig) == [k |-> "Function", sig |-> sig]
Type_Struct(members) == [k |-> "Struct", members |-> members]
Type_Union(members) == [k |-> "Union", members |-> members]
Type_Enum(ident, members) == [k |-> "Enum", ident |-> ident, members |-> members]

\* the value the model gives a call that panicked
Panic == [k |-> "panic"]

is_bool(t) == t.k = "Bool"

is_integral(t) == t.k \in {"Bool", "Char", "Short", "Int", "Long", "Enum"}

is_floating(t) == t.k \in {"Float", "Double"}

is_arithmetic(t) == is_integral(t) \/ is_floating(t)

is_pointer(t) == t.k = "Pointer"

is_function(t) == t.k = "Function"

is_scalar(t) == t.k = "Enum" \/ is_arithmetic(t) \/ is_pointer(t)

is_void_pointer(t) == t.k = "Pointer" /\ t.to = Type_Void

is_char_pointer(t) == t.k = "Pointer" /\ t.to.k = "Char"

is_struct(t) == t.k \in {"Struct", "Union"}

is_complete(t) ==
    ~ (\/ t.k = "Void"
       \/ t.k = "Function"
       \/ (t.k = "Array" /\ t.size = Unbounded))

is_pointer_to_complete_object(t) ==
    CASE t.k = "Pointer" -> is_complete(t.to) /\ ~ is_function(t.to)
      [] t.k = "Array" -> TRUE
      [] OTHER -> FALSE

\* Type::sign: [panic, value]; panic is set on a type outside the match arms
sign(t) ==
    CASE t.k \in {"Char", "Short", "Int", "Long"} -> [panic |-> FALSE, value |-> t.sign]
      [] t.k = "Bool" -> [panic |-> FALSE, value |-> FALSE]
      [] t.k = "Enum" -> [panic |-> FALSE, value |-> TRUE]
      [] OTHER -> [panic |-> TRUE, value |-> FALSE]

\* std::usize::MAX, the rank of every type that is not Bool/Char/Short/Int/Long
\* (only its order against the ranks 0..4 is read)
USIZE_MAX == 2147483647

rank(t) ==
    CASE t.k = "Bool" -> 0
      [] t.k = "Char" -> 1
      [] t.k = "Short" -> 2
      [] t.k = "Int" -> 3
      [] t.k = "Long" -> 4
      [] OTHER -> USIZE_MAX

\* width in bits of an integral type's object representation
IntBits(t) ==
    CASE t.k = "Bool" -> 1
      [] t.k = "Char" -> 8
      [] t.k = "Short" -> 16
      [] t.k = "Int" -> 32
      [] t.k = "Long" -> 64
      [] t.k = "Enum" -> 32

\* the value range of an integral type as exponents: the least value is
\* -2^lo (lo = -1 stands for a least value of 0), the greatest 2^hi - 1
ValueRange(t) ==
    IF sign(t).value
    THEN [lo |-> IntBits(t) - 1, hi |-> IntBits(t) - 1]
    ELSE [lo |-> -1, hi |-> IntBits(t)]

\* self.can_represent(other): every value of other is a value of self
can_represent(self, other) ==
    \/ self = other
    \/ (self = Type_Double /\ other = Type_Float)
    \/ /\ is_integral(self) /\ is_integral(other)
       /\ ValueRange(self).lo >= ValueRange(other).lo
       /\ ValueRange(self).hi >= ValueRange(other).hi

\* a faulty integer_promote: every type of rank <= Int becomes signed Int,
\* whether or not signed Int can represent it
integer_promote_always_signed(self) ==
    IF rank(self) <= rank(Type_Int(TRUE)) THEN Type_Int(TRUE) ELSE self

integer_promote(self) ==
    IF rank(self) <= rank(Type_Int(TRUE))
    THEN IF can_represent(Type_Int(TRUE), self) THEN Type_Int(TRUE) ELSE Type_Int(FALSE)
    ELSE self

\* Bind(v, LAMBDA x : e) is e with x bound to v, as a Rust let binds
Bind(v, F(_)) == F(v)
Bind2(v, w, F(_, _)) == F(v, w)

\* a faulty Type::binary_promote: when the signs differ the unsigned type is
\* taken without asking whether the signed one can represent it
Type_binary_promote_prefers_unsigned(left0, right0) ==
    IF left0 = Type_Double \/ right0 = Type_Double THEN Type_Double
    ELSE IF left0 = Type_Float \/ right0 = Type_Float THEN Type_Float
    ELSE
      Bind2(integer_promote(left0), integer_promote(right0), LAMBDA left, right :
      Bind(<<sign(left), sign(right)>>, LAMBDA signs :
          IF signs[1].panic \/ signs[2].panic THEN Panic
          ELSE IF signs[1].value = signs[2].value
          THEN IF rank(left) >= rank(right) THEN left ELSE right
          ELSE IF signs[1].value THEN right ELSE left))

\* Type::binary_promote: the common type, or Panic when sign() panics
Type_binary_promote(left0, right0) ==
    IF left0 = Type_Double \/ right0 = Type_Double THEN Type_Double
    ELSE IF left0 = Type_Float \/ right0 = Type_Float THEN Type_Float
    ELSE
      Bind2(integer_promote(left0), integer_promote(right0), LAMBDA left, right :
      Bind(<<sign(left), sign(right)>>, LAMBDA signs :
          IF signs[1].panic \/ signs[2].panic THEN Panic
          ELSE IF signs[1].value = signs[2].value
          THEN IF rank(left) >= rank(right) THEN left ELSE right
          ELSE Bind2(IF signs[1].value THEN left ELSE right,
                     IF signs[1].value THEN right ELSE left, LAMBDA signed, unsigned :
                     IF can_represent(signed, unsigned) THEN signed ELSE unsigned)))

Ok(v) == [k |-> "Ok", v |-> v]
Err == [k |-> "Err"]

\* Type::sizeof: Ok(size in bytes) or Err
RECURSIVE sizeof(_)
sizeof(t) ==
    CASE t.k \in {"Bool", "Char"} -> Ok(1)
      [] t.k = "Short" -> Ok(2)
      [] t.k \in {"Int", "Float", "Enum"} -> Ok(4)
      [] t.k \in {"Long", "Double", "Pointer"} -> Ok(8)
      [] t.k = "Array" /\ t.size.k = "Fixed" ->
            IF sizeof(t.to) = Err THEN Err ELSE Ok(sizeof(t.to).v * t.size.n)
      [] t.k \in {"Struct", "Union"} -> Ok(Len(t.members) * 8)
      [] OTHER -> Err

----------------------------------------------------------------------------
(* data::hir: literals, typed expressions, symbol metadata                 *)

Literal_Int(v) == [k |-> "Int", v |-> v]
Literal_UnsignedInt(v) == [k |-> "UnsignedInt", v |-> v]
Literal_Char(v) == [k |-> "Char", v |-> v]
Literal_Float(v) == [k |-> "Float", v |-> v]
Literal_Str(s) == [k |-> "Str", s |-> s]

ExprType_Literal(lit) == [k |-> "Literal", lit |-> lit]
ExprType_Id(sym) == [k |-> "Id", sym |-> sym]
ExprType_Binary(op, left, right) == [k |-> "Binary", op |-> op, left |-> left, right |-> right]
ExprType_Cast(inner) == [k |-> "Cast", inner |-> inner]
ExprType_Deref(inner) == [k |-> "Deref", inner |-> inner]

\* data::hir::BinaryOp: Op("Mul"), Op("Assign"), ..., and Compare(token)
Op(k) == [k |-> k]
Compare(token) == [k |-> "Compare", token |-> token]

\* hir::Expr without its location
Expr(expr, ctype, lval) == [expr |-> expr, ctype |-> ctype, lval |-> lval]

\* what a call that panicked leaves in place of its Expr
NoExpr == Expr([k |-> "None"], Type_Error, FALSE)

Metadata(id, ctype, qualifiers, storage_class) ==
    [id |-> id, ctype |-> ctype, qualifiers |-> qualifiers, storage_class |-> storage_class]

\* Metadata::insert: the store grows by one entry, the reference is its index
insert(md, meta) == [metadata |-> Append(md, meta), ref |-> Len(md) + 1]

\* MetadataRef::get
get(md, sym) == md[sym]

\* Scope: a stack of frames, each a function from names to MetadataRef
scope_enter(sc) == Append(sc, <<>>)

scope_exit(sc) == SubSeq(sc, 1, Len(sc) - 1)

scope_insert(sc, name, ref) ==
    LET top == sc[Len(sc)]
        frame == [n \in DOMAIN top \cup {name} |-> IF n = name THEN ref ELSE top[n]]
    IN  [sc EXCEPT ![Len(sc)] = frame]

\* Scope::get: Some(ref) from the innermost frame that binds name, else None
scope_get(sc, name) ==
    LET hits == {i \in 1..Len(sc) : name \in DOMAIN sc[i]}
    IN  IF hits = {} THEN [k |-> "None"]
        ELSE LET i == CHOOSE j \in hits : \A h \in hits : h <= j
             IN  [k |-> "Some", ref |-> sc[i][name]]

----------------------------------------------------------------------------
(* impl Expr                                                               *)

zero == Expr(ExprType_Literal(Literal_Int(0)), Type_Int(TRUE), FALSE)

is_null(self) ==
    /\ self.expr.k = "Literal"
    /\ self.expr.lit.k \in {"Int", "UnsignedInt", "Char"}
    /\ self.expr.lit.v = 0

id(md, symbol) == Expr(ExprType_Id(symbol), get(md, symbol).ctype, TRUE)

literal(lit) ==
    LET ctype ==
          CASE lit.k = "Char" -> Type_Char(TRUE)
            [] lit.k = "Int" -> Type_Long(TRUE)
            [] lit.k = "UnsignedInt" -> Type_Long(FALSE)
            [] lit.k = "Float" -> Type_Double
            [] lit.k = "Str" -> Type_Array(Type_Char(TRUE), Fixed(Len(lit.s)))
    IN  Expr(ExprType_Literal(lit), ctype, FALSE)

\* a faulty rval: the Deref it wraps around an lvalue is still an lvalue
rval_deref_stays_lval(self) ==
    CASE self.ctype.k = "Array" ->
            [self EXCEPT !.lval = FALSE,
                         !.ctype = Type_Pointer(self.ctype.to, NoQualifiers)]
      [] self.ctype.k = "Function" ->
            [self EXCEPT !.lval = FALSE,
                         !.ctype = Type_Pointer(self.ctype, ConstQualifiers)]
      [] self.ctype.k \in {"Struct", "Union"} /\ self.lval ->
            [self EXCEPT !.lval = FALSE]
      [] self.ctype.k \notin {"Array", "Function", "Struct", "Union"} /\ self.lval ->
            Expr(ExprType_Deref(self), self.ctype, TRUE)
      [] OTHER -> self

rval(self) ==
    CASE self.ctype.k = "Array" ->
            [self EXCEPT !.lval = FALSE,
                         !.ctype = Type_Pointer(self.ctype.to, NoQualifiers)]
      [] self.ctype.k = "Function" ->
            [self EXCEPT !.lval = FALSE,
                         !.ctype = Type_Pointer(self.ctype, ConstQualifiers)]
      [] self.ctype.k \in {"Struct", "Union"} /\ self.lval ->
            [self EXCEPT !.lval = FALSE]
      [] self.ctype.k \notin {"Array", "Function"}
         /\ ~ (self.ctype.k \in {"Struct", "Union"} /\ self.lval)
         /\ self.lval ->
            Expr(ExprType_Deref(self), self.ctype, FALSE)
      [] OTHER -> self

InvalidCast(from, to) == [k |-> "InvalidCast", from |-> from, to |-> to]

\* a faulty implicit_cast: the retyping arm is tried before the Cast arm
implicit_cast_retype_first(self, ctype, eh) ==
    IF self.ctype = ctype
    THEN [expr |-> self, error_handler |-> eh]
    ELSE IF /\ is_pointer(ctype)
            /\ (is_null(self) \/ is_void_pointer(self.ctype) \/ is_char_pointer(self.ctype))
    THEN [expr |-> [self EXCEPT !.ctype = ctype], error_handler |-> eh]
    ELSE IF \/ is_arithmetic(self.ctype) /\ is_arithmetic(ctype)
            \/ is_null(self) /\ is_pointer(ctype)
            \/ is_pointer(self.ctype) /\ is_bool(ctype)
            \/ is_pointer(self.ctype) /\ is_void_pointer(ctype)
            \/ is_pointer(self.ctype) /\ is_char_pointer(ctype)
    THEN [expr |-> Expr(ExprType_Cast(self), ctype, FALSE), error_handler |-> eh]
    ELSE IF self.ctype = Type_Error
    THEN [expr |-> self, error_handler |-> eh]
    ELSE [expr |-> self,
          error_handler |-> Append(eh, InvalidCast(self.ctype, ctype))]

\* Expr::implicit_cast: [expr, error_handler]
implicit_cast(self, ctype, eh) ==
    IF self.ctype = ctype
    THEN [expr |-> self, error_handler |-> eh]
    ELSE IF \/ is_arithmetic(self.ctype) /\ is_arithmetic(ctype)
            \/ is_null(self) /\ is_pointer(ctype)
            \/ is_pointer(self.ctype) /\ is_bool(ctype)
            \/ is_pointer(self.ctype) /\ is_void_pointer(ctype)
            \/ is_pointer(self.ctype) /\ is_char_pointer(ctype)
    THEN [expr |-> Expr(ExprType_Cast(self), ctype, FALSE), error_handler |-> eh]
    ELSE IF /\ is_pointer(ctype)
            /\ (is_null(self) \/ is_void_pointer(self.ctype) \/ is_char_pointer(self.ctype))
    THEN [expr |-> [self EXCEPT !.ctype = ctype], error_handler |-> eh]
    ELSE IF self.ctype = Type_Error
    THEN [expr |-> self, error_handler |-> eh]
    ELSE [expr |-> self,
          error_handler |-> Append(eh, InvalidCast(self.ctype, ctype))]

\* Expr::binary_promote: [panic, left, right, error_handler]
Expr_binary_promote(left0, right0, eh) ==
    Bind2(rval(left0), rval(right0), LAMBDA left, right :
    Bind(Type_binary_promote(left.ctype, right.ctype), LAMBDA ctype :
        IF ctype = Panic
        THEN [panic |-> TRUE, left |-> NoExpr, right |-> NoExpr, error_handler |-> eh]
        ELSE Bind(implicit_cast(left, ctype, eh), LAMBDA l :
             Bind(implicit_cast(right, ctype, l.error_handler), LAMBDA r :
                 [panic |-> FALSE, left |-> l.expr, right |-> r.expr,
                  error_handler |-> r.error_handler]))))

NotAssignable(reason) == [k |-> "NotAssignable", reason |-> reason]

\* a faulty modifiable_lval: the const qualifier of a named variable is not
\* looked up
modifiable_lval_ignores_const(self, md) ==
    IF ~ self.lval THEN [k |-> "Err", e |-> NotAssignable("rvalue")]
    ELSE IF ~ is_complete(self.ctype)
    THEN [k |-> "Err", e |-> NotAssignable("expression with incomplete type")]
    ELSE CASE self.ctype.k = "Array" -> [k |-> "Err", e |-> NotAssignable("array")]
           [] self.ctype.k \in {"Struct", "Union"} ->
                IF \E i \in 1..Len(self.ctype.members) :
                        self.ctype.members[i].qualifiers.c_const
                THEN [k |-> "Err",
                      e |-> NotAssignable("struct or union with const qualified member")]
                ELSE [k |-> "Ok"]
           [] OTHER -> [k |-> "Ok"]

\* Expr::modifiable_lval: Ok(()) or Err(NotAssignable(reason))
modifiable_lval(self, md) ==
    IF ~ self.lval THEN [k |-> "Err", e |-> NotAssignable("rvalue")]
    ELSE IF ~ is_complete(self.ctype)
    THEN [k |-> "Err", e |-> NotAssignable("expression with incomplete type")]
    ELSE IF self.expr.k = "Id" /\ get(md, self.expr.sym).qualifiers.c_const
    THEN [k |-> "Err", e |-> NotAssignable("variable with const qualifier")]
    ELSE CASE self.ctype.k = "Array" -> [k |-> "Err", e |-> NotAssignable("array")]
           [] self.ctype.k \in {"Struct", "Union"} ->
                IF \E i \in 1..Len(self.ctype.members) :
                        self.ctype.members[i].qualifiers.c_const
                THEN [k |-> "Err",
                      e |-> NotAssignable("struct or union with const qualified member")]
                ELSE [k |-> "Ok"]
           [] OTHER -> [k |-> "Ok"]

----------------------------------------------------------------------------
(* data::ast: the untyped tree the parser hands over                       *)

ast_Literal(lit) == [k |-> "Literal", lit |-> lit]
ast_Id(name) == [k |-> "Id", name |-> name]
ast_Cast(ctype, inner) == [k |-> "Cast", ctype |-> ctype, inner |-> inner]
ast_Shift(left, right, direction) ==
    [k |-> "Shift", left |-> left, right |-> right, direction |-> direction]
ast_Binary(kind, left, right) == [k |-> kind, left |-> left, right |-> right]
ast_Compare(left, right, token) ==
    [k |-> "Compare", left |-> left, right |-> right, token |-> token]
ast_Assign(lval, rv, token) ==
    [k |-> "Assign", lval |-> lval, rval |-> rv, token |-> token]
\* a node kind parse_expr has no arm for (the conditional expression)
ast_Ternary(cond, left, right) ==
    [k |-> "Ternary", cond |-> cond, left |-> left, right |-> right]

----------------------------------------------------------------------------
(* impl Analyzer.  Every method takes the analyzer an and returns          *)
(* [an, expr]: the analyzer after the call and the Expr returned.          *)

\* Analyzer::err: push the error on the error handler
err(an, e) == [an EXCEPT !.error_handler = Append(@, e)]

\* a panic: the call returns no Expr
abort(an) == [an |-> [an EXCEPT !.abort = TRUE], expr |-> NoExpr]

\* Analyzer::parse_typename, on a type name that denotes ctype
parse_typename(an, ctype) == ctype

NonIntegralExpr(ctype) == [k |-> "NonIntegralExpr", ctype |-> ctype]
UndeclaredVar(name) == [k |-> "UndeclaredVar", name |-> name]
TypedefInExpressionContext == [k |-> "TypedefInExpressionContext"]
InvalidRelationalType(token, left, right) ==
    [k |-> "InvalidRelationalType", token |-> token, left |-> left, right |-> right]
InvalidAdd(op, left, right) == [k |-> "InvalidAdd", op |-> op, left |-> left, right |-> right]
NonScalarCast(ctype) == [k |-> "NonScalarCast", ctype |-> ctype]
FloatPointerCast(ctype) == [k |-> "FloatPointerCast", ctype |-> ctype]
StructCast == [k |-> "StructCast"]
VoidCast == [k |-> "VoidCast"]
PointerAddUnknownSize(ctype) == [k |-> "PointerAddUnknownSize", ctype |-> ctype]
\* SemanticError::from(String): the mismatch message of mul
Generic(msg, op, left, right) ==
    [k |-> "Generic", msg |-> msg, op |-> op, left |-> left, right |-> right]

parse_integer_op(an, left, right, op) ==
    Bind(IF ~ is_integral(left.ctype) THEN [k |-> "Some", ctype |-> left.ctype]
         ELSE IF ~ is_integral(right.ctype) THEN [k |-> "Some", ctype |-> right.ctype]
         ELSE [k |-> "None"], LAMBDA non_scalar :
    Bind(IF non_scalar.k = "Some"
         THEN err(an, NonIntegralExpr(non_scalar.ctype))
         ELSE an, LAMBDA an1 :
    Bind(Expr_binary_promote(left, right, an1.error_handler), LAMBDA p :
        IF p.panic THEN abort(an1)
        ELSE [an |-> [an1 EXCEPT !.error_handler = p.error_handler],
              expr |-> Expr(ExprType_Binary(op, p.left, p.right), p.right.ctype, FALSE)])))

\* members.iter().find_map(mapper): the value of the first member named name
find_enumerator(members, name) ==
    LET hits == {i \in 1..Len(members) : members[i][1] = name}
    IN  IF hits = {} THEN [k |-> "None"]
        ELSE LET i == CHOOSE j \in hits : \A h \in hits : j <= h
             IN  [k |-> "Some", v |-> members[i][2]]

\* a faulty parse_id: the placeholder of an unresolved name is the literal 0
\* typed as literal() types it (Long) instead of Expr::zero()
parse_id_long_placeholder(an, name) ==
    Bind2(literal(Literal_Int(0)), scope_get(an.scope, name), LAMBDA pretend_zero, found :
        IF found.k = "None"
        THEN [an |-> err(an, UndeclaredVar(name)), expr |-> pretend_zero]
        ELSE Bind2(found.ref, get(an.metadata, found.ref), LAMBDA symbol, meta :
             IF meta.storage_class = "Typedef"
             THEN [an |-> err(an, TypedefInExpressionContext), expr |-> pretend_zero]
             ELSE Bind(IF meta.ctype.k = "Enum"
                       THEN find_enumerator(meta.ctype.members, name)
                       ELSE [k |-> "None"], LAMBDA enumerator :
                  IF enumerator.k = "Some"
                  THEN [an |-> an,
                        expr |-> Expr(ExprType_Literal(Literal_Int(enumerator.v)),
                                      Type_Enum(meta.ctype.ident, meta.ctype.members),
                                      FALSE)]
                  ELSE [an |-> an, expr |-> id(an.metadata, symbol)])))

parse_id(an, name) ==
    Bind2(zero, scope_get(an.scope, name), LAMBDA pretend_zero, found :
        IF found.k = "None"
        THEN [an |-> err(an, UndeclaredVar(name)), expr |-> pretend_zero]
        ELSE Bind2(found.ref, get(an.metadata, found.ref), LAMBDA symbol, meta :
             IF meta.storage_class = "Typedef"
             THEN [an |-> err(an, TypedefInExpressionContext), expr |-> pretend_zero]
             ELSE Bind(IF meta.ctype.k = "Enum"
                       THEN find_enumerator(meta.ctype.members, name)
                       ELSE [k |-> "None"], LAMBDA enumerator :
                  IF enumerator.k = "Some"
                  THEN [an |-> an,
                        expr |-> Expr(ExprType_Literal(Literal_Int(enumerator.v)),
                                      Type_Enum(meta.ctype.ident, meta.ctype.members),
                                      FALSE)]
                  ELSE [an |-> an, expr |-> id(an.metadata, symbol)])))

mul(an, left, right, op) ==
    Bind(IF op = Op("Mod") /\ ~ (is_integral(left.ctype) /\ is_integral(right.ctype))
         THEN err(an, Generic("expected integers for both operators of %",
                              op, left.ctype, right.ctype))
         ELSE IF ~ (is_arithmetic(left.ctype) /\ is_arithmetic(right.ctype))
         THEN err(an, Generic("expected float or integer types for both operands",
                              op, left.ctype, right.ctype))
         ELSE an, LAMBDA an1 :
    Bind(Expr_binary_promote(left, right, an1.error_handler), LAMBDA p :
        IF p.panic THEN abort(an1)
        ELSE [an |-> [an1 EXCEPT !.error_handler = p.error_handler],
              expr |-> Expr(ExprType_Binary(op, p.left, p.right), p.left.ctype, FALSE)]))

pointer_arithmetic(an, base, index, pointee) ==
    Bind2(rval(Expr(ExprType_Cast(index), base.ctype, FALSE)), sizeof(pointee),
          LAMBDA offset0, sz :
    Bind2(IF sz = Err THEN err(an, PointerAddUnknownSize(base.ctype)) ELSE an,
          IF sz = Err THEN 1 ELSE sz.v, LAMBDA an1, size :
    Bind(literal(Literal_UnsignedInt(size)), LAMBDA size_literal :
    Bind(Expr(ExprType_Cast(size_literal), offset0.ctype, FALSE), LAMBDA size_cast :
    Bind(Expr(ExprType_Binary(Op("Mul"), size_cast, offset0), offset0.ctype, FALSE),
         LAMBDA offset :
        [an |-> an1,
         expr |-> Expr(ExprType_Binary(Op("Add"), base, offset), base.ctype, FALSE)])))))

\* a faulty add: integral - pointer is routed to pointer arithmetic like
\* integral + pointer
add_integer_minus_pointer(an, left, right, op) ==
    Bind(op = Op("Add"), LAMBDA is_add :
        IF /\ left.ctype.k \in {"Pointer", "Array"}
           /\ is_integral(right.ctype) /\ is_complete(left.ctype.to)
        THEN pointer_arithmetic(an, rval(left), rval(right), left.ctype.to)
        ELSE IF /\ right.ctype.k \in {"Pointer", "Array"}
                /\ is_integral(left.ctype) /\ is_complete(right.ctype.to)
        THEN pointer_arithmetic(an, rval(right), rval(left), right.ctype.to)
        ELSE IF is_arithmetic(left.ctype) /\ is_arithmetic(right.ctype)
        THEN Bind(Expr_binary_promote(left, right, an.error_handler), LAMBDA p :
                 IF p.panic THEN abort(an)
                 ELSE [an |-> [an EXCEPT !.error_handler = p.error_handler],
                       expr |-> Expr(ExprType_Binary(op, p.left, p.right),
                                     p.left.ctype, FALSE)])
        ELSE IF /\ ~ is_add /\ is_pointer_to_complete_object(left.ctype)
                /\ left.ctype = right.ctype
        THEN [an |-> an,
              expr |-> Expr(ExprType_Binary(op, left, right), left.ctype, TRUE)]
        ELSE [an |-> err(an, InvalidAdd(op, left.ctype, right.ctype)),
              expr |-> Expr(ExprType_Binary(op, left, right), left.ctype, FALSE)])

add(an, left, right, op) ==
    Bind(op = Op("Add"), LAMBDA is_add :
        IF /\ left.ctype.k \in {"Pointer", "Array"}
           /\ is_integral(right.ctype) /\ is_complete(left.ctype.to)
        THEN pointer_arithmetic(an, rval(left), rval(right), left.ctype.to)
        ELSE IF /\ right.ctype.k \in {"Pointer", "Array"}
                /\ is_integral(left.ctype) /\ is_add /\ is_complete(right.ctype.to)
        THEN pointer_arithmetic(an, rval(right), rval(left), right.ctype.to)
        ELSE IF is_arithmetic(left.ctype) /\ is_arithmetic(right.ctype)
        THEN Bind(Expr_binary_promote(left, right, an.error_handler), LAMBDA p :
                 IF p.panic THEN abort(an)
                 ELSE [an |-> [an EXCEPT !.error_handler = p.error_handler],
                       expr |-> Expr(ExprType_Binary(op, p.left, p.right),
                                     p.left.ctype, FALSE)])
        ELSE IF /\ ~ is_add /\ is_pointer_to_complete_object(left.ctype)
                /\ left.ctype = right.ctype
        THEN [an |-> an,
              expr |-> Expr(ExprType_Binary(op, left, right), left.ctype, TRUE)]
        ELSE [an |-> err(an, InvalidAdd(op, left.ctype, right.ctype)),
              expr |-> Expr(ExprType_Binary(op, left, right), left.ctype, FALSE)])

\* desugar_op: the operator rule of a compound assignment token
desugar_op(an, left, right, token) ==
    CASE token = "Equal" -> abort(an)
      [] token = "OrEqual" -> parse_integer_op(an, left, right, Op("BitwiseOr"))
      [] token = "AndEqual" -> parse_integer_op(an, left, right, Op("BitwiseAnd"))
      [] token = "XorEqual" -> parse_integer_op(an, left, right, Op("Xor"))
      [] token = "ShlEqual" -> parse_integer_op(an, left, right, Op("Shl"))
      [] token = "ShrEqual" -> parse_integer_op(an, left, right, Op("Shr"))
      [] token = "MulEqual" -> mul(an, left, right, Op("Mul"))
      [] token = "DivEqual" -> mul(an, left, right, Op("Div"))
      [] token = "ModEqual" -> mul(an, left, right, Op("Mod"))
      [] token = "AddEqual" -> add(an, left, right, Op("Add"))
      [] token = "SubEqual" -> add(an, left, right, Op("Sub"))

\* the expr_checker binary_helper is given, applied to the lowered operands
expr_checker(checker, an, left, right, op) ==
    CASE checker = "parse_integer_op" -> parse_integer_op(an, left, right, op)
      [] checker = "mul" -> mul(an, left, right, op)
      [] checker = "add" -> add(an, left, right, op)

\* a faulty relational_expr: the mixed pointer pairs of == and != are
\* accepted for every comparison token
relational_valid_any_token(left_expr, right_expr, token) ==
    \/ (is_pointer(left_expr.ctype) /\ left_expr.ctype = right_expr.ctype)
    \/ is_pointer(left_expr.ctype) /\ is_void_pointer(right_expr.ctype)
    \/ is_void_pointer(left_expr.ctype) /\ is_pointer(right_expr.ctype)
    \/ is_null(left_expr) /\ is_pointer(right_expr.ctype)
    \/ is_pointer(left_expr.ctype) /\ is_null(right_expr)

\* the valid operand pairs of relational_expr when not both are arithmetic
relational_valid(left_expr, right_expr, token) ==
    \/ (is_pointer(left_expr.ctype) /\ left_expr.ctype = right_expr.ctype)
    \/ /\ token \in {"EqualEqual", "NotEqual"}
       /\ \/ is_pointer(left_expr.ctype) /\ is_void_pointer(right_expr.ctype)
          \/ is_void_pointer(left_expr.ctype) /\ is_pointer(right_expr.ctype)
          \/ is_null(left_expr) /\ is_pointer(right_expr.ctype)
          \/ is_pointer(left_expr.ctype) /\ is_null(right_expr)

\* relational_expr once both operands are lowered
relational_checked(an, left, right, token) ==
    IF is_arithmetic(left.ctype) /\ is_arithmetic(right.ctype)
    THEN Bind(Expr_binary_promote(left, right, an.error_handler), LAMBDA p :
             \* assert!(!left.lval && !right.lval)
             IF p.panic \/ p.left.lval \/ p.right.lval THEN abort(an)
             ELSE [an |-> [an EXCEPT !.error_handler = p.error_handler],
                   expr |-> Expr(ExprType_Binary(Compare(token), p.left, p.right),
                                 Type_Bool, FALSE)])
    ELSE Bind2(rval(left), rval(right), LAMBDA left_expr, right_expr :
         Bind(IF ~ relational_valid(left_expr, right_expr, token)
              THEN err(an, InvalidRelationalType(token, left_expr.ctype, right_expr.ctype))
              ELSE an, LAMBDA an1 :
             \* assert!(!left.lval && !right.lval)
             IF left_expr.lval \/ right_expr.lval THEN abort(an1)
             ELSE [an |-> an1,
                   expr |-> Expr(ExprType_Binary(Compare(token), left_expr, right_expr),
                                 Type_Bool, FALSE)]))

\* a faulty explicit_cast: the source type is tested before the target type
explicit_cast_checked_source_first(an, expr, ctype) ==
    IF ctype = Type_Void
    THEN [an |-> an, expr |-> Expr(ExprType_Cast(expr), ctype, FALSE)]
    ELSE Bind(IF is_struct(expr.ctype) THEN err(an, StructCast)
              ELSE IF expr.ctype = Type_Void THEN err(an, VoidCast)
              ELSE IF ~ is_scalar(ctype) THEN err(an, NonScalarCast(ctype))
              ELSE IF \/ is_floating(expr.ctype) /\ is_pointer(ctype)
                      \/ is_pointer(expr.ctype) /\ is_floating(ctype)
              THEN err(an, FloatPointerCast(ctype))
              ELSE an, LAMBDA an1 :
             [an |-> an1, expr |-> Expr(ExprType_Cast(expr), ctype, FALSE)])

\* a faulty explicit_cast: only the floating-to-pointer direction is rejected
explicit_cast_checked_one_direction(an, expr, ctype) ==
    IF ctype = Type_Void
    THEN [an |-> an, expr |-> Expr(ExprType_Cast(expr), ctype, FALSE)]
    ELSE Bind(IF ~ is_scalar(ctype) THEN err(an, NonScalarCast(ctype))
              ELSE IF is_floating(expr.ctype) /\ is_pointer(ctype)
              THEN err(an, FloatPointerCast(ctype))
              ELSE IF is_struct(expr.ctype) THEN err(an, StructCast)
              ELSE IF expr.ctype = Type_Void THEN err(an, VoidCast)
              ELSE an, LAMBDA an1 :
             [an |-> an1, expr |-> Expr(ExprType_Cast(expr), ctype, FALSE)])

\* explicit_cast once the operand is lowered
explicit_cast_checked(an, expr, ctype) ==
    IF ctype = Type_Void
    THEN [an |-> an, expr |-> Expr(ExprType_Cast(expr), ctype, FALSE)]
    ELSE Bind(IF ~ is_scalar(ctype) THEN err(an, NonScalarCast(ctype))
              ELSE IF \/ is_floating(expr.ctype) /\ is_pointer(ctype)
                      \/ is_pointer(expr.ctype) /\ is_floating(ctype)
              THEN err(an, FloatPointerCast(ctype))
              ELSE IF is_struct(expr.ctype) THEN err(an, StructCast)
              ELSE IF expr.ctype = Type_Void THEN err(an, VoidCast)
              ELSE an, LAMBDA an1 :
             [an |-> an1, expr |-> Expr(ExprType_Cast(expr), ctype, FALSE)])

\* the simple assignment of assignment_expr, lval checked and both sides lowered
simple_assignment(an, lval, rval0) ==
    Bind(IF rval0.ctype # lval.ctype
         THEN implicit_cast(rval0, lval.ctype, an.error_handler)
         ELSE [expr |-> rval0, error_handler |-> an.error_handler], LAMBDA c :
        [an |-> [an EXCEPT !.error_handler = c.error_handler],
         expr |-> Expr(ExprType_Binary(Op("Assign"), lval, c.expr), lval.ctype, FALSE)])

\* a faulty compound assignment: the temporary is declared in the current
\* frame, no hidden scope is entered and left around it
compound_assignment_in_current_scope(an, lval, rval0, token) ==
    Bind2("tmp", lval.ctype, LAMBDA tmp_name, ctype :
    Bind(insert(an.metadata, Metadata(tmp_name, ctype, NoQualifiers, "Register")),
         LAMBDA ins :
    Bind2(ins.ref, scope_insert(an.scope, tmp_name, ins.ref), LAMBDA meta_ref, sc :
    Bind(Expr(ExprType_Binary(Op("Assign"), Expr(ExprType_Id(meta_ref), ctype, FALSE), lval),
              ctype, TRUE), LAMBDA tmp_assign_expr :
    Bind(desugar_op([an EXCEPT !.metadata = ins.metadata, !.scope = sc],
                    tmp_assign_expr, rval0, token), LAMBDA new_val :
        IF new_val.an.abort THEN abort(new_val.an)
        ELSE [an |-> new_val.an,
              expr |-> Expr(ExprType_Binary(Op("Assign"), tmp_assign_expr, new_val.expr),
                            ctype, FALSE)])))))

\* the compound assignment of assignment_expr, lval checked and both sides lowered
compound_assignment(an, lval, rval0, token) ==
    Bind2("tmp", lval.ctype, LAMBDA tmp_name, ctype :
    Bind(insert(an.metadata, Metadata(tmp_name, ctype, NoQualifiers, "Register")),
         LAMBDA ins :
    \* self.scope.enter(); self.scope.insert(tmp_name, meta_ref); self.scope.exit()
    Bind2(ins.ref, scope_exit(scope_insert(scope_enter(an.scope), tmp_name, ins.ref)),
          LAMBDA meta_ref, sc :
    Bind(Expr(ExprType_Binary(Op("Assign"), Expr(ExprType_Id(meta_ref), ctype, FALSE), lval),
              ctype, TRUE), LAMBDA tmp_assign_expr :
    Bind(desugar_op([an EXCEPT !.metadata = ins.metadata, !.scope = sc],
                    tmp_assign_expr, rval0, token), LAMBDA new_val :
        IF new_val.an.abort THEN abort(new_val.an)
        ELSE [an |-> new_val.an,
              expr |-> Expr(ExprType_Binary(Op("Assign"), tmp_assign_expr, new_val.expr),
                            ctype, FALSE)])))))

\* assignment_expr once both sides are lowered
assignment_checked(an, lval, rval0, token) ==
    Bind(modifiable_lval(lval, an.metadata), LAMBDA check :
    Bind(IF check.k = "Err" THEN err(an, check.e) ELSE an, LAMBDA an1 :
        IF token = "Equal"
        THEN simple_assignment(an1, lval, rval0)
        ELSE compound_assignment(an1, lval, rval0, token)))

RECURSIVE parse_expr(_, _)
RECURSIVE parse_binary(_, _, _, _, _)
RECURSIVE relational_expr(_, _, _, _)
RECURSIVE explicit_cast(_, _, _)
RECURSIVE assignment_expr(_, _, _, _)

\* a faulty parse_binary: the right operand is lowered before the left one
parse_binary_right_first(an, left, right, op, checker) ==
    Bind(parse_expr(an, right), LAMBDA r :
        IF r.an.abort THEN abort(r.an)
        ELSE Bind(parse_expr(r.an, left), LAMBDA l :
                 IF l.an.abort THEN abort(l.an)
                 ELSE expr_checker(checker, l.an, l.expr, r.expr, op)))

\* parse_binary with the closure binary_helper builds: f = expr_checker(_, _, op)
parse_binary(an, left, right, op, checker) ==
    Bind(parse_expr(an, left), LAMBDA l :
        IF l.an.abort THEN abort(l.an)
        ELSE Bind(parse_expr(l.an, right), LAMBDA r :
                 IF r.an.abort THEN abort(r.an)
                 ELSE expr_checker(checker, r.an, l.expr, r.expr, op)))

binary_helper(an, left, right, op, checker) ==
    parse_binary(an, left, right, op, checker)

relational_expr(an, left, right, token) ==
    Bind(parse_expr(an, left), LAMBDA l :
        IF l.an.abort THEN abort(l.an)
        ELSE Bind(parse_expr(l.an, right), LAMBDA r :
                 IF r.an.abort THEN abort(r.an)
                 ELSE relational_checked(r.an, l.expr, r.expr, token)))

explicit_cast(an, expr, ctype) ==
    Bind(parse_expr(an, expr), LAMBDA e :
        IF e.an.abort THEN abort(e.an)
        ELSE explicit_cast_checked(e.an, e.expr, ctype))

assignment_expr(an, lval_ast, rval_ast, token) ==
    Bind(parse_expr(an, lval_ast), LAMBDA l :
        IF l.an.abort THEN abort(l.an)
        ELSE Bind(parse_expr(l.an, rval_ast), LAMBDA r :
                 IF r.an.abort THEN abort(r.an)
                 ELSE assignment_checked(r.an, l.expr, r.expr, token)))

parse_expr(an, expr) ==
    CASE expr.k = "Literal" -> [an |-> an, expr |-> literal(expr.lit)]
      [] expr.k = "Id" -> parse_id(an, expr.name)
      [] expr.k = "Cast" -> explicit_cast(an, expr.inner, parse_typename(an, expr.ctype))
      [] expr.k = "Shift" ->
            binary_helper(an, expr.left, expr.right,
                          IF expr.direction THEN Op("Shl") ELSE Op("Shr"),
                          "parse_integer_op")
      [] expr.k \in {"BitwiseAnd", "BitwiseOr", "Xor"} ->
            binary_helper(an, expr.left, expr.right, Op(expr.k), "parse_integer_op")
      [] expr.k = "Compare" -> relational_expr(an, expr.left, expr.right, expr.token)
      [] expr.k \in {"Mul", "Div", "Mod"} ->
            binary_helper(an, expr.left, expr.right, Op(expr.k), "mul")
      [] expr.k = "Assign" -> assignment_expr(an, expr.lval, expr.rval, expr.token)
      [] expr.k \in {"Add", "Sub"} ->
            binary_helper(an, expr.left, expr.right, Op(expr.k), "add")
      [] OTHER -> abort(an)

----------------------------------------------------------------------------
(* The translation unit the expressions are analysed in: the declarations  *)
(* in scope when parse_expr is called.                                     *)

Member(name, ctype, qualifiers) == [id |-> name, ctype |-> ctype, qualifiers |-> qualifiers]

StructPlain == Type_Struct(<<Member("m", Type_Int(TRUE), NoQualifiers)>>)
StructConstMember ==
    Type_Struct(<<Member("m", Type_Int(TRUE), NoQualifiers),
                  Member("k", Type_Int(TRUE), ConstQualifiers)>>)
UnionPlain == Type_Union(<<Member("m", Type_Int(TRUE), NoQualifiers)>>)
EnumE1 == Type_Enum("E1", << <<"A", 0>>, <<"B", 1>> >>)
EnumE2 == Type_Enum("E2", << <<"C", 1>> >>)

Declarations ==
    << Metadata("x", Type_Int(TRUE), NoQualifiers, "Auto"),
       Metadata("p", Type_Pointer(Type_Int(TRUE), NoQualifiers), NoQualifiers, "Auto"),
       Metadata("c", Type_Int(TRUE), ConstQualifiers, "Auto"),
       Metadata("a", Type_Array(Type_Int(TRUE), Fixed(2)), NoQualifiers, "Auto"),
       Metadata("s", StructPlain, NoQualifiers, "Auto"),
       Metadata("sc", StructConstMember, NoQualifiers, "Auto"),
       Metadata("f", Type_Function("int f(void)"), NoQualifiers, "Extern"),
       Metadata("vp", Type_Pointer(Type_Void, NoQualifiers), NoQualifiers, "Auto"),
       Metadata("T", Type_Int(TRUE), NoQualifiers, "Typedef"),
       Metadata("A", EnumE1, NoQualifiers, "Auto"),
       Metadata("C", EnumE2, NoQualifiers, "Auto"),
       Metadata("ev", EnumE1, NoQualifiers, "Auto"),
       Metadata("b", Type_Bool, NoQualifiers, "Auto"),
       Metadata("fl", Type_Float, NoQualifiers, "Auto"),
       Metadata("us", Type_Short(FALSE), NoQualifiers, "Auto"),
       Metadata("ui", Type_Int(FALSE), NoQualifiers, "Auto"),
       Metadata("uc", Type_Char(FALSE), NoQualifiers, "Auto"),
       Metadata("un", UnionPlain, NoQualifiers, "Auto"),
       Metadata("cp", Type_Pointer(Type_Char(TRUE), NoQualifiers), NoQualifiers, "Auto"),
       Metadata("ua", Type_Array(Type_Int(TRUE), Unbounded), NoQualifiers, "Extern"),
       Metadata("pf", Type_Pointer(Type_Function("int f(void)"), NoQualifiers),
                NoQualifiers, "Auto") >>

\* the global frame: every declaration bound under its name
GlobalScope == << [n \in {Declarations[i].id : i \in DOMAIN Declarations} |->
                      CHOOSE i \in DOMAIN Declarations : Declarations[i].id = n] >>

\* names the expressions use: the declared ones and two that are not declared
Names == {Declarations[i].id : i \in DOMAIN Declarations} \cup {"u", "tmp"}

Literals ==
    {Literal_Int(v) : v \in 0..MaxLit} \cup {Literal_UnsignedInt(v) : v \in 0..MaxLit}
    \cup {Literal_Char(v) : v \in 0..MaxLit}
    \cup {Literal_Float("1.5"), Literal_Str(<<"h", "i">>)}

\* operands without operators, and (void)x for an operand of type Void
Atoms ==
    {ast_Literal(l) : l \in Literals} \cup {ast_Id(n) : n \in Names}
    \cup {ast_Cast(Type_Void, ast_Id("x"))}

ComparisonTokens ==
    {"Less", "Greater", "EqualEqual", "NotEqual", "LessEqual", "GreaterEqual"}

AssignmentTokens ==
    {"Equal", "AddEqual", "SubEqual", "MulEqual", "DivEqual", "ModEqual",
     "ShlEqual", "ShrEqual", "AndEqual", "OrEqual", "XorEqual"}

BinaryKinds == {"BitwiseAnd", "BitwiseOr", "Xor", "Mul", "Div", "Mod", "Add", "Sub"}

CastTargets ==
    {Type_Void, Type_Bool, Type_Int(TRUE), Type_Int(FALSE), Type_Float, Type_Double,
     Type_Pointer(Type_Int(TRUE), NoQualifiers), Type_Pointer(Type_Void, NoQualifiers),
     StructPlain, EnumE1, Type_Array(Type_Int(TRUE), Fixed(2)),
     Type_Function("int f(void)")}

\* a few operands and one operator of each family, for nested expressions
FewAtoms == {ast_Id("x"), ast_Id("p"), ast_Id("u"), ast_Literal(Literal_Float("1.5"))}

FewOperators(L, R) ==
    {ast_Binary(kd, l, r) : kd \in {"BitwiseAnd", "Mul", "Mod", "Add", "Sub"}, l \in L, r \in R}
    \cup {ast_Compare(l, r, t) : l \in L, r \in R, t \in {"Less", "EqualEqual"}}
    \cup {ast_Assign(l, r, t) : l \in L, r \in R, t \in {"Equal", "AddEqual", "OrEqual"}}
    \cup {ast_Cast(t, l) : t \in {Type_Int(TRUE), Type_Pointer(Type_Int(TRUE), NoQualifiers)},
                           l \in L}

\* operator nodes over FewAtoms: the operands of nested expressions
Inner == FewOperators(FewAtoms, FewAtoms)

AtomPairs == Atoms \X Atoms

NestedPairs == (Inner \X FewAtoms) \cup (FewAtoms \X Inner)

\* the operand pairs an operator is analysed on; few: also the nested ones
OperandPairs(few) == IF few THEN AtomPairs \cup NestedPairs ELSE AtomPairs

----------------------------------------------------------------------------
(* The analyzer as a state machine: constructed, then one expression is    *)
(* analysed with parse_expr (crate::analyze::test::analyze).               *)

NoInput == [k |-> "None"]

NewAnalyzer ==
    [scope |-> GlobalScope, metadata |-> Declarations, error_handler |-> <<>>,
     abort |-> FALSE]

Init ==
    /\ scope = NewAnalyzer.scope
    /\ metadata = NewAnalyzer.metadata
    /\ error_handler = NewAnalyzer.error_handler
    /\ pc = "ready"
    /\ input = NoInput
    /\ output = NoExpr

\* the analyzer the state holds
Analyzer == [scope |-> scope, metadata |-> metadata, error_handler |-> error_handler,
             abort |-> FALSE]

\* one call of Analyzer::parse_expr, on ast
Lower(ast) ==
    \E r \in {parse_expr(Analyzer, ast)} :
        /\ scope' = r.an.scope
        /\ metadata' = r.an.metadata
        /\ error_handler' = r.an.error_handler
        /\ output' = r.expr
        /\ pc' = IF r.an.abort THEN "aborted" ELSE "done"
        /\ input' = ast

\* parse_expr on a literal, an identifier (or the Void operand)
ParseAtom ==
    /\ pc = "ready"
    /\ \E a \in Atoms : Lower(a)

ParseCast ==
    /\ pc = "ready"
    /\ \E t \in CastTargets, e \in Atoms \cup Inner : Lower(ast_Cast(t, e))

ParseShift ==
    /\ pc = "ready"
    /\ \E d \in BOOLEAN :
         \E pr \in OperandPairs(d) : Lower(ast_Shift(pr[1], pr[2], d))

\* parse_expr on BitwiseAnd, BitwiseOr, Xor, Mul, Div, Mod, Add or Sub
ParseBinary ==
    /\ pc = "ready"
    /\ \E kd \in BinaryKinds :
         \E pr \in OperandPairs(kd \in {"BitwiseAnd", "Mul", "Mod", "Add", "Sub"}) :
            Lower(ast_Binary(kd, pr[1], pr[2]))

ParseCompare ==
    /\ pc = "ready"
    /\ \E t \in ComparisonTokens :
         \E pr \in OperandPairs(t \in {"Less", "EqualEqual"}) :
            Lower(ast_Compare(pr[1], pr[2], t))

ParseAssign ==
    /\ pc = "ready"
    /\ \E t \in AssignmentTokens :
         \E pr \in OperandPairs(t \in {"Equal", "AddEqual", "OrEqual"}) :
            Lower(ast_Assign(pr[1], pr[2], t))

\* parse_expr on a node kind it has no arm for
ParseUnsupported ==
    /\ pc = "ready"
    /\ \E c \in FewAtoms, l \in FewAtoms, r \in FewAtoms : Lower(ast_Ternary(c, l, r))

Next ==
    \/ ParseAtom
    \/ ParseCast
    \/ ParseShift
    \/ ParseBinary
    \/ ParseCompare
    \/ ParseAssign
    \/ ParseUnsupported

Spec == Init /\ [][Next]_vars

----------------------------------------------------------------------------
(* The type rules as pure functions: the operands are drawn at the start,  *)
(* an action applies the function to them.                                 *)

ArithmeticTypes ==
    {Type_Bool, Type_Float, Type_Double, EnumE1, EnumE2}
    \cup {Type_Char(sg) : sg \in BOOLEAN} \cup {Type_Short(sg) : sg \in BOOLEAN}
    \cup {Type_Int(sg) : sg \in BOOLEAN} \cup {Type_Long(sg) : sg \in BOOLEAN}

AllTypes ==
    ArithmeticTypes
    \cup {Type_Void, Type_Error, StructPlain, StructConstMember, UnionPlain,
          Type_Function("int f(void)"),
          Type_Pointer(Type_Int(TRUE), NoQualifiers),
          Type_Pointer(Type_Void, NoQualifiers),
          Type_Pointer(Type_Function("int f(void)"), ConstQualifiers),
          Type_Array(Type_Int(TRUE), Fixed(2)),
          Type_Array(Type_Int(TRUE), Unbounded)}

InitPromote ==
    /\ scope = NewAnalyzer.scope
    /\ metadata = NewAnalyzer.metadata
    /\ error_handler = NewAnalyzer.error_handler
    /\ pc = "ready"
    /\ input \in ArithmeticTypes \X ArithmeticTypes
    /\ output = NoExpr

\* Type::binary_promote(input[1], input[2])
BinaryPromote ==
    /\ pc = "ready"
    /\ output' = Type_binary_promote(input[1], input[2])
    /\ pc' = "binary_promote"
    /\ UNCHANGED <<scope, metadata, error_handler, input>>

\* input[1].integer_promote()
IntegerPromote ==
    /\ pc = "ready"
    /\ output' = integer_promote(input[1])
    /\ pc' = "integer_promote"
    /\ UNCHANGED <<scope, metadata, error_handler, input>>

NextPromote == BinaryPromote \/ IntegerPromote

SpecPromote == InitPromote /\ [][NextPromote]_vars

\* typed expressions of every node kind, type and lval flag
ExprShapes ==
    {ExprType_Literal(Literal_Int(0)), ExprType_Literal(Literal_Str(<<"h", "i">>)),
     ExprType_Id(1), ExprType_Binary(Op("Add"), zero, zero),
     ExprType_Cast(zero), ExprType_Deref(zero)}

TypedExprs == {Expr(sh, t, lv) : sh \in ExprShapes, t \in AllTypes, lv \in BOOLEAN}

InitRval ==
    /\ scope = NewAnalyzer.scope
    /\ metadata = NewAnalyzer.metadata
    /\ error_handler = NewAnalyzer.error_handler
    /\ pc = "ready"
    /\ input \in TypedExprs
    /\ output = NoExpr

\* input.rval()
Rval ==
    /\ pc = "ready"
    /\ output' = rval(input)
    /\ pc' = "rval"
    /\ UNCHANGED <<scope, metadata, error_handler, input>>

\* rval() on the expression the first rval() returned
RvalAgain ==
    /\ pc = "rval"
    /\ input' = output
    /\ output' = rval(output)
    /\ pc' = "rval_rval"
    /\ UNCHANGED <<scope, metadata, error_handler>>

NextRval == Rval \/ RvalAgain

SpecRval == InitRval /\ [][NextRval]_vars

----------------------------------------------------------------------------
(* Expr::implicit_cast as a function of an expression and a target type.   *)

\* the expressions cast: every literal, every declared name as parse_id
\* returns it and as rval() decays it
CastSources ==
    {literal(l) : l \in Literals}
    \cup {id(Declarations, i) : i \in DOMAIN Declarations}
    \cup {rval(id(Declarations, i)) : i \in DOMAIN Declarations}

\* the target types: every modelled type and further pointer types
CastTargetTypes ==
    AllTypes
    \cup {Type_Pointer(Type_Char(TRUE), NoQualifiers),
          Type_Pointer(Type_Char(FALSE), NoQualifiers),
          Type_Pointer(Type_Void, ConstQualifiers),
          Type_Pointer(Type_Long(TRUE), NoQualifiers)}

InitCast ==
    /\ scope = NewAnalyzer.scope
    /\ metadata = NewAnalyzer.metadata
    /\ error_handler = NewAnalyzer.error_handler
    /\ pc = "ready"
    /\ input \in CastSources \X CastTargetTypes
    /\ output = NoExpr

\* input[1].implicit_cast(&input[2], &mut error_handler)
ImplicitCast ==
    /\ pc = "ready"
    /\ \E r \in {implicit_cast(input[1], input[2], error_handler)} :
         /\ output' = r.expr
         /\ error_handler' = r.error_handler
    /\ pc' = "implicit_cast"
    /\ UNCHANGED <<scope, metadata, input>>

NextCast == ImplicitCast

SpecCast == InitCast /\ [][NextCast]_vars

----------------------------------------------------------------------------
(* One analyzer, several top-level parse_expr calls in a row: scope,       *)
(* metadata and error_handler carry over from call to call.                *)

\* at most this many hidden temporaries are declared before the last call
MaxTemporaries == 3
\* at most this many diagnostics are reported before the last call
MaxReported == 3

\* a user's own variable named like the hidden temporary
UserTmp == Metadata("tmp", Type_Double, NoQualifiers, "Auto")

\* the global frame with the user's tmp bound after the other declarations
UserTmpScope ==
    << [n \in DOMAIN GlobalScope[1] \cup {"tmp"} |->
           IF n = "tmp" THEN Len(Declarations) + 1 ELSE GlobalScope[1][n]] >>

\* the analyzer starts with the declarations, with or without a user's tmp
InitCalls ==
    /\ \E user \in BOOLEAN :
         /\ metadata = IF user THEN Append(Declarations, UserTmp) ELSE Declarations
         /\ scope = IF user THEN UserTmpScope ELSE GlobalScope
    /\ error_handler = <<>>
    /\ pc = "ready"
    /\ input = NoInput
    /\ output = NoExpr

\* the hidden temporaries declared so far
Temporaries == {i \in DOMAIN metadata : metadata[i].storage_class = "Register"}

\* an operand that reports TypedefInExpressionContext and has type Double,
\* and one that reports it and has type int*
TypedefSum == ast_Binary("Add", ast_Id("T"), ast_Literal(Literal_Float("1.5")))
TypedefPointer == ast_Cast(Type_Pointer(Type_Int(TRUE), NoQualifiers), ast_Id("T"))

\* one binary form of each family whose left operand, right operand and own
\* rule each report a diagnostic
ReportingForms ==
    {ast_Shift(ast_Id("u"), TypedefSum, TRUE),
     ast_Binary("BitwiseAnd", TypedefSum, ast_Id("u")),
     ast_Binary("Mod", ast_Id("u"), TypedefSum),
     ast_Binary("Sub", ast_Id("u"), TypedefPointer),
     ast_Compare(ast_Id("u"), TypedefPointer, "Less"),
     ast_Assign(ast_Id("u"), ast_Id("T"), "Equal")}

\* the expressions of the successive calls: lookups of tmp and of x, simple
\* and compound assignments, nested compound assignments, a compound
\* assignment whose operator rule panics, and the reporting binary forms
CallInputs ==
    {ast_Id("tmp"), ast_Id("x"),
     ast_Assign(ast_Id("x"), ast_Id("tmp"), "Equal"),
     ast_Assign(ast_Id("x"), ast_Literal(Literal_Int(1)), "AddEqual"),
     ast_Assign(ast_Id("c"), ast_Literal(Literal_Int(1)), "OrEqual"),
     ast_Assign(ast_Id("x"),
                ast_Assign(ast_Id("x"), ast_Id("tmp"), "MulEqual"), "SubEqual"),
     ast_Assign(ast_Assign(ast_Id("x"), ast_Literal(Literal_Int(1)), "ShlEqual"),
                ast_Id("tmp"), "AddEqual"),
     ast_Binary("Add", ast_Assign(ast_Id("p"), ast_Literal(Literal_Int(1)), "AddEqual"),
                ast_Id("tmp")),
     ast_Assign(ast_Id("p"), ast_Id("p"), "ModEqual")}
    \cup ReportingForms

\* the next top-level call of parse_expr on the same analyzer
LowerNext ==
    /\ pc \in {"ready", "done"}
    /\ Cardinality(Temporaries) < MaxTemporaries
    /\ Len(error_handler) < MaxReported
    /\ \E ast \in CallInputs : Lower(ast)

NextCalls == LowerNext

SpecCalls == InitCalls /\ [][NextCalls]_vars

----------------------------------------------------------------------------
(* What the properties read off a state.                                   *)

\* the number of nodes of tree e that equal sub
RECURSIVE Occurrences(_, _)
Occurrences(e, sub) ==
    (IF e = sub THEN 1 ELSE 0)
    + CASE e.expr.k = "Binary" ->
              Occurrences(e.expr.left, sub) + Occurrences(e.expr.right, sub)
        [] e.expr.k \in {"Cast", "Deref"} -> Occurrences(e.expr.inner, sub)
        [] OTHER -> 0

\* the number of Identifier nodes of tree e that refer to symbol sym
RECURSIVE IdRefs(_, _)
IdRefs(e, sym) ==
    CASE e.expr.k = "Id" -> IF e.expr.sym = sym THEN 1 ELSE 0
      [] e.expr.k = "Binary" -> IdRefs(e.expr.left, sym) + IdRefs(e.expr.right, sym)
      [] e.expr.k \in {"Cast", "Deref"} -> IdRefs(e.expr.inner, sym)
      [] OTHER -> 0

\* whether the untyped tree holds a node of a kind parse_expr does not support
RECURSIVE HasUnsupported(_)
HasUnsupported(a) ==
    CASE a.k \in {"Literal", "Id"} -> FALSE
      [] a.k = "Cast" -> HasUnsupported(a.inner)
      [] a.k = "Assign" -> HasUnsupported(a.lval) \/ HasUnsupported(a.rval)
      [] a.k \in BinaryKinds \cup {"Shift", "Compare"} ->
            HasUnsupported(a.left) \/ HasUnsupported(a.right)
      [] OTHER -> TRUE

\* the input is a binary form; its operand trees
IsBinaryForm == input.k \in BinaryKinds \cup {"Shift", "Compare", "Assign"}
LeftAst == IF input.k = "Assign" THEN input.lval ELSE input.left
RightAst == IF input.k = "Assign" THEN input.rval ELSE input.right

\* the operands of the input as parse_expr lowers them: left, then right
LoweredLeft == parse_expr(NewAnalyzer, LeftAst)
LoweredRight == parse_expr(LoweredLeft.an, RightAst)
OperandsLowered == ~ LoweredLeft.an.abort /\ ~ LoweredRight.an.abort

\* the operand of the input cast as parse_expr lowers it
LoweredInner == parse_expr(NewAnalyzer, input.inner)

\* the diagnostics reported after the first n
ReportedAfter(n) == SubSeq(error_handler, n + 1, Len(error_handler))

\* how many diagnostics of kind kd sequence ds holds
CountKind(ds, kd) == Cardinality({i \in DOMAIN ds : ds[i].k = kd})

----------------------------------------------------------------------------
(* C1..C5                                                                  *)

IsCompoundAssign == input.k = "Assign" /\ input.token # "Equal"

\* C1: the tree of a compound assignment lhs op= rhs holds exactly one
\* occurrence of the lowered left-hand side, and exactly two Identifier
\* nodes that refer to the hidden temporary.
C1_LhsEvaluatedOnce ==
    (pc = "done" /\ IsCompoundAssign) =>
        /\ Occurrences(output, LoweredLeft.expr) = 1
        /\ IdRefs(output, Len(metadata)) = 2

\* C2: lowering a tree of supported node kinds never aborts, whatever the
\* operand types: the pass aborts only on an unsupported node kind.
C2_NoAbortOnSupportedNodes ==
    pc = "aborted" => HasUnsupported(input)

\* C3: Type::binary_promote is commutative on arithmetic types.
C3_BinaryPromoteCommutative ==
    pc = "binary_promote" => output = Type_binary_promote(input[2], input[1])

\* C4: rval is idempotent: a second rval() returns its argument unchanged
\* (same node, type and lval flag), so no second Deref is added.
C4_RvalIdempotent ==
    pc = "rval_rval" => output = input

\* C4 witness: the first rval() wrapped an lvalue in a Deref, the second ran
C4_Witness ==
    /\ pc = "rval_rval"
    /\ input.expr.k = "Deref" /\ input.expr.inner.lval
    /\ input.expr.inner.expr.k = "Id"

\* what C5 says integer_promote returns for t
C5_Promoted(t) ==
    IF rank(t) <= rank(Type_Int(TRUE))
    THEN IF can_represent(Type_Int(TRUE), t) THEN Type_Int(TRUE) ELSE Type_Int(FALSE)
    ELSE t

\* C5 as stated: of the types of rank <= Int only signed Int is returned as
\* itself; each promotes to signed Int if that can represent it, else to
\* unsigned Int; a type of higher rank is returned unchanged.
C5_AsStated ==
    (pc = "integer_promote" /\ is_integral(input[1])) =>
        /\ output = C5_Promoted(input[1])
        /\ (rank(input[1]) <= rank(Type_Int(TRUE)) /\ output = input[1])
              => input[1] = Type_Int(TRUE)

\* C5 amended: as stated, but the types of rank <= Int returned as themselves
\* are the two of Int's rank, signed Int and unsigned Int.
C5_IntegerPromote ==
    (pc = "integer_promote" /\ is_integral(input[1])) =>
        /\ output = C5_Promoted(input[1])
        /\ output \in {Type_Int(TRUE), Type_Int(FALSE)} \/ rank(input[1]) > rank(Type_Int(TRUE))
        /\ (rank(input[1]) <= rank(Type_Int(TRUE)) /\ output = input[1])
              => rank(input[1]) = rank(Type_Int(TRUE))

\* C5 witness: a type below Int's rank was promoted to signed Int
C5_Witness ==
    /\ pc = "integer_promote"
    /\ input[1] = Type_Short(FALSE) /\ output = Type_Int(TRUE)

----------------------------------------------------------------------------
(* C6..C10                                                                 *)

IsMulForm == input.k \in {"Mul", "Div", "Mod"}

\* the type rule of the multiplicative operator of the input, on the types
\* of its lowered operands
MulRuleHolds ==
    IF input.k = "Mod"
    THEN is_integral(LoweredLeft.expr.ctype) /\ is_integral(LoweredRight.expr.ctype)
    ELSE is_arithmetic(LoweredLeft.expr.ctype) /\ is_arithmetic(LoweredRight.expr.ctype)

\* t is the usual arithmetic conversion of t1 and t2, as C6 words it
IsUsualArithmeticConversion(t, t1, t2) ==
    IF t1 = Type_Double \/ t2 = Type_Double THEN t = Type_Double
    ELSE IF t1 = Type_Float \/ t2 = Type_Float THEN t = Type_Float
    ELSE Bind2(C5_Promoted(t1), C5_Promoted(t2), LAMBDA a, b :
         IF sign(a).value = sign(b).value
         THEN /\ t \in {a, b}
              /\ rank(t) >= rank(a) /\ rank(t) >= rank(b)
         ELSE Bind2(IF sign(a).value THEN a ELSE b, IF sign(a).value THEN b ELSE a,
                    LAMBDA sgn, uns :
                    t = IF can_represent(sgn, uns) THEN sgn ELSE uns))

\* C6: a multiplicative operator on operands that satisfy its type rule
\* returns Binary(op, l, r) with lval = false, typed by the usual arithmetic
\* conversion of the operand types; both children carry that type and the
\* rule reports no diagnostic.
C6_MulPromotes ==
    (IsMulForm /\ OperandsLowered /\ MulRuleHolds) =>
        /\ pc = "done"
        /\ output.expr.k = "Binary" /\ output.expr.op = Op(input.k)
        /\ ~ output.lval
        /\ IsUsualArithmeticConversion(output.ctype, LoweredLeft.expr.ctype,
                                       LoweredRight.expr.ctype)
        /\ output.expr.left.ctype = output.ctype
        /\ output.expr.right.ctype = output.ctype
        /\ error_handler = LoweredRight.an.error_handler

\* C6 witness: Long * Double was lowered to a Binary node of type Double
C6_Witness ==
    /\ pc = "done" /\ input.k = "Mul"
    /\ LoweredLeft.expr.ctype = Type_Long(TRUE)
    /\ LoweredRight.expr.ctype = Type_Double
    /\ output.ctype = Type_Double /\ output.expr.left.expr.k = "Cast"

\* C7: a multiplicative operator on operands that violate its type rule
\* reports the mismatch once and still returns a Binary node with
\* lval = false, for every such operand pair.
C7_MulMismatchRecovered ==
    (IsMulForm /\ OperandsLowered /\ ~ MulRuleHolds) =>
        /\ pc = "done"
        /\ output.expr.k = "Binary" /\ output.expr.op = Op(input.k)
        /\ ~ output.lval
        /\ CountKind(ReportedAfter(Len(LoweredRight.an.error_handler)), "Generic") = 1

IsCastForm == input.k = "Cast"

\* one of (source type, target type) is floating and the other a pointer
FloatPointerPair(src, tgt) ==
    \/ is_floating(src) /\ is_pointer(tgt)
    \/ is_pointer(src) /\ is_floating(tgt)

\* C8: an explicit cast of e to T returns Cast(lowered e) of type T with
\* lval = false whatever is reported; for scalar non-Void T FloatPointerCast
\* is reported exactly when one of (source type, T) is floating and the other
\* a pointer; arithmetic-to-arithmetic and integer-to-pointer casts and casts
\* to Void report nothing.
C8_ExplicitCast ==
    (IsCastForm /\ ~ LoweredInner.an.abort) =>
        Bind2(LoweredInner.expr, ReportedAfter(Len(LoweredInner.an.error_handler)),
              LAMBDA e, reported :
            /\ pc = "done"
            /\ output = Expr(ExprType_Cast(e), input.ctype, FALSE)
            /\ (input.ctype # Type_Void /\ is_scalar(input.ctype)) =>
                  /\ FloatPointerPair(e.ctype, input.ctype)
                        => reported = <<FloatPointerCast(input.ctype)>>
                  /\ ~ FloatPointerPair(e.ctype, input.ctype)
                        => CountKind(reported, "FloatPointerCast") = 0
                  /\ (is_arithmetic(e.ctype) /\ is_arithmetic(input.ctype))
                        => reported = <<>>
                  /\ (is_integral(e.ctype) /\ is_pointer(input.ctype))
                        => reported = <<>>
            /\ input.ctype = Type_Void => reported = <<>>)

\* C8 witness: a pointer was cast to a floating type, FloatPointerCast was
\* reported and the Cast node returned all the same
C8_Witness ==
    /\ pc = "done" /\ IsCastForm
    /\ is_pointer(LoweredInner.expr.ctype) /\ is_floating(input.ctype)
    /\ error_handler = <<FloatPointerCast(input.ctype)>>
    /\ output.expr.k = "Cast" /\ output.ctype = input.ctype

\* the placeholder C9 names: a Literal of value 0, type signed Int, no lvalue
C9_Placeholder == Expr(ExprType_Literal(Literal_Int(0)), Type_Int(TRUE), FALSE)

\* C9: an identifier not bound in the scope appends exactly one UndeclaredVar
\* and returns the zero placeholder; a name bound with typedef storage class
\* appends exactly one TypedefInExpressionContext and returns the same
\* placeholder; neither aborts.
C9_UnresolvedIdentifier ==
    (pc # "ready" /\ input.k = "Id") =>
        Bind({i \in DOMAIN Declarations : Declarations[i].id = input.name}, LAMBDA bound :
            /\ bound = {} =>
                  /\ pc = "done"
                  /\ error_handler = <<UndeclaredVar(input.name)>>
                  /\ output = C9_Placeholder
            /\ (\E i \in bound : Declarations[i].storage_class = "Typedef") =>
                  /\ pc = "done"
                  /\ error_handler = <<TypedefInExpressionContext>>
                  /\ output = C9_Placeholder)

\* C9 witness: the undeclared name u was resolved
C9_Witness ==
    /\ pc = "done" /\ input = ast_Id("u")
    /\ error_handler = <<UndeclaredVar("u")>>

IsSimpleAssign == input.k = "Assign" /\ input.token = "Equal"

\* e fails the modifiable-lvalue check, as C10 lists the failures
C10_NotModifiable(e) ==
    \/ ~ e.lval
    \/ ~ is_complete(e.ctype)
    \/ e.ctype.k = "Array"
    \/ (e.expr.k = "Id" /\ metadata[e.expr.sym].qualifiers.c_const)
    \/ /\ e.ctype.k \in {"Struct", "Union"}
       /\ \E i \in DOMAIN e.ctype.members : e.ctype.members[i].qualifiers.c_const

\* C10: a simple assignment l = r whose lowered left side fails the
\* modifiable-lvalue check appends exactly one NotAssignable; failed or
\* passed, the call returns Binary(Assign, left, right) typed as the left
\* side with lval = false.
C10_SimpleAssignment ==
    (IsSimpleAssign /\ OperandsLowered) =>
        Bind2(LoweredLeft.expr, LoweredRight.expr, LAMBDA l, r :
            /\ pc = "done"
            /\ output.expr.k = "Binary" /\ output.expr.op = Op("Assign")
            /\ output.expr.left = l
            /\ output.expr.right \in
                  {r, Expr(ExprType_Cast(r), l.ctype, FALSE), [r EXCEPT !.ctype = l.ctype]}
            /\ output.ctype = l.ctype
            /\ ~ output.lval
            /\ C10_NotModifiable(l) =>
                  CountKind(ReportedAfter(Len(LoweredRight.an.error_handler)),
                            "NotAssignable") = 1)

\* C10 witness: the const variable c was assigned to; NotAssignable was
\* reported and the assignment node returned
C10_Witness ==
    /\ pc = "done" /\ IsSimpleAssign /\ input.lval = ast_Id("c")
    /\ CountKind(error_handler, "NotAssignable") = 1
    /\ output.expr.k = "Binary" /\ output.expr.op = Op("Assign")

----------------------------------------------------------------------------
(* C11..C17                                                                *)

\* the user's binding of name in the frames of sc, as a reference or 0
UserBinding(sc, name) ==
    IF \E i \in DOMAIN sc : name \in DOMAIN sc[i]
    THEN sc[CHOOSE i \in DOMAIN sc : name \in DOMAIN sc[i]
                                      /\ \A j \in DOMAIN sc : name \in DOMAIN sc[j] => j <= i][name]
    ELSE 0

\* the number of Id nodes of the untyped tree a that name the identifier name
RECURSIVE AstIdCount(_, _)
AstIdCount(a, name) ==
    CASE a.k = "Id" -> IF a.name = name THEN 1 ELSE 0
      [] a.k = "Cast" -> AstIdCount(a.inner, name)
      [] a.k = "Assign" -> AstIdCount(a.lval, name) + AstIdCount(a.rval, name)
      [] a.k \in BinaryKinds \cup {"Shift", "Compare"} ->
            AstIdCount(a.left, name) + AstIdCount(a.right, name)
      [] OTHER -> 0

\* C11: every top-level call leaves the scope stack as it found it (same
\* depth, same bindings), and a lookup of the name tmp after hidden
\* temporaries were declared returns the user's binding, or the zero
\* placeholder with one UndeclaredVar when the user declared none; inside a
\* call too, every tmp the expression names is undeclared unless the user
\* declared it.
C11_ScopeRestored ==
    [][/\ scope' = scope
       /\ (pc' = "done" /\ input' = ast_Id("tmp")) =>
             IF UserBinding(scope, "tmp") # 0
             THEN /\ output' = Expr(ExprType_Id(UserBinding(scope, "tmp")), UserTmp.ctype, TRUE)
                  /\ metadata[output'.expr.sym] = UserTmp
                  /\ error_handler' = error_handler
             ELSE /\ output' = C9_Placeholder
                  /\ error_handler' = Append(error_handler, UndeclaredVar("tmp"))
       /\ (pc' = "done" /\ UserBinding(scope, "tmp") = 0) =>
             Cardinality({i \in DOMAIN error_handler' :
                             /\ i > Len(error_handler)
                             /\ error_handler'[i] = UndeclaredVar("tmp")})
                = AstIdCount(input', "tmp")]_vars

\* C11 witness: tmp was looked up after hidden temporaries were declared by
\* earlier calls, and the user's binding was returned
C11_Witness ==
    /\ pc = "done" /\ input = ast_Id("tmp")
    /\ Cardinality(Temporaries) >= 2
    /\ Len(scope) = 1
    /\ output.expr.k = "Id" /\ metadata[output.expr.sym] = UserTmp

\* the case C12 is about: the target is a pointer type other than the
\* expression's type, the expression is a null pointer constant, a void
\* pointer or a char pointer
C12_Case ==
    /\ pc = "implicit_cast"
    /\ is_pointer(input[2]) /\ input[2] # input[1].ctype
    /\ \/ is_null(input[1])
       \/ is_void_pointer(input[1].ctype)
       \/ is_char_pointer(input[1].ctype)

\* the expression retyped in place: same node, the type set to the target
C12_Retyped == output = [input[1] EXCEPT !.ctype = input[2]]

\* C12 as stated: in every such case implicit_cast retypes the expression in
\* place, wraps no Cast node around it and reports no diagnostic.
C12_AsStated ==
    C12_Case => (C12_Retyped /\ error_handler = <<>>)

\* C12 amended: the expression is retyped in place when it is no null pointer
\* constant and the target is neither a void pointer nor a char pointer; for
\* a null pointer constant, or a void-pointer or char-pointer target, a Cast
\* node of the target type is wrapped around it; no diagnostic either way.
C12_ImplicitCastToPointer ==
    C12_Case =>
        /\ error_handler = <<>>
        /\ IF \/ is_null(input[1])
              \/ is_void_pointer(input[2])
              \/ is_char_pointer(input[2])
           THEN output = Expr(ExprType_Cast(input[1]), input[2], FALSE)
           ELSE C12_Retyped

\* C12 witness: a void pointer was cast to int* and retyped in place
C12_Witness ==
    /\ C12_Case
    /\ is_void_pointer(input[1].ctype)
    /\ input[2] = Type_Pointer(Type_Int(TRUE), NoQualifiers)
    /\ output.expr.k = "Id" /\ output.ctype = input[2]

\* the diagnostics an explicit cast can report
CastDiagnostics == {"NonScalarCast", "FloatPointerCast", "StructCast", "VoidCast"}

\* what the cast of the input reported after its operand was lowered
CastReported == ReportedAfter(Len(LoweredInner.an.error_handler))

\* the input is a cast to a type other than Void whose operand was lowered
C13_Case == IsCastForm /\ ~ LoweredInner.an.abort /\ input.ctype # Type_Void

\* C13 as stated: a source of struct or union type reports StructCast and a
\* source of type Void reports VoidCast, whatever the non-Void target type
\* is; a cast reports at most one cast diagnostic.
C13_AsStated ==
    C13_Case =>
        /\ is_struct(LoweredInner.expr.ctype) => CountKind(CastReported, "StructCast") = 1
        /\ LoweredInner.expr.ctype = Type_Void => CountKind(CastReported, "VoidCast") = 1
        /\ Cardinality({i \in DOMAIN CastReported : CastReported[i].k \in CastDiagnostics}) <= 1

\* C13 amended: for a scalar target a struct or union source reports
\* StructCast and a Void source reports VoidCast; for a non-scalar target
\* NonScalarCast is reported instead, whatever the source type; a cast
\* reports at most one cast diagnostic.
C13_SourceDiagnostics ==
    C13_Case =>
        /\ (is_scalar(input.ctype) /\ is_struct(LoweredInner.expr.ctype))
              => CastReported = <<StructCast>>
        /\ (is_scalar(input.ctype) /\ LoweredInner.expr.ctype = Type_Void)
              => CastReported = <<VoidCast>>
        /\ ~ is_scalar(input.ctype) => CastReported = <<NonScalarCast(input.ctype)>>
        /\ Cardinality({i \in DOMAIN CastReported : CastReported[i].k \in CastDiagnostics}) <= 1

\* C13 witness: a struct was cast to int and StructCast reported
C13_Witness ==
    /\ pc = "done" /\ C13_Case
    /\ input.inner = ast_Id("s") /\ input.ctype = Type_Int(TRUE)
    /\ error_handler = <<StructCast>>

IsCompareForm == input.k = "Compare"

\* e is a void pointer or a null pointer constant
VoidOrNull(e) == is_void_pointer(e.ctype) \/ is_null(e)

\* the decayed operands l and r may be compared with token, as C14 words it
C14_Comparable(l, r, token) ==
    \/ is_pointer(l.ctype) /\ is_pointer(r.ctype) /\ l.ctype = r.ctype
    \/ /\ token \in {"EqualEqual", "NotEqual"}
       /\ \/ VoidOrNull(l) /\ is_pointer(r.ctype)
          \/ is_pointer(l.ctype) /\ VoidOrNull(r)

\* C14: a comparison returns a Binary(Compare) node of type Bool with
\* lval = false whose two children have lval = false; when the operands are
\* not both arithmetic, InvalidRelationalType is reported exactly when the
\* decayed operands are neither two equal pointer types nor, for == and !=,
\* a void pointer or null pointer constant paired with a pointer.
C14_Comparison ==
    (IsCompareForm /\ OperandsLowered) =>
        /\ pc = "done"
        /\ output.expr.k = "Binary" /\ output.expr.op = Compare(input.token)
        /\ output.ctype = Type_Bool /\ ~ output.lval
        /\ ~ output.expr.left.lval /\ ~ output.expr.right.lval
        /\ ~ (is_arithmetic(LoweredLeft.expr.ctype) /\ is_arithmetic(LoweredRight.expr.ctype)) =>
              Bind2(rval(LoweredLeft.expr), rval(LoweredRight.expr), LAMBDA l, r :
                  ReportedAfter(Len(LoweredRight.an.error_handler)) =
                      IF C14_Comparable(l, r, input.token) THEN <<>>
                      ELSE <<InvalidRelationalType(input.token, l.ctype, r.ctype)>>)

\* C14 witness: p < 0 was reported, and the Compare node returned
C14_Witness ==
    /\ pc = "done"
    /\ input = ast_Compare(ast_Id("p"), ast_Literal(Literal_Int(0)), "Less")
    /\ CountKind(error_handler, "InvalidRelationalType") = 1
    /\ output.ctype = Type_Bool /\ output.expr.left.expr.k = "Deref"

IsAddForm == input.k \in {"Add", "Sub"}

\* t is a pointer or array type whose pointee is complete
PointerOrArrayToComplete(t) == t.k \in {"Pointer", "Array"} /\ is_complete(t.to)

\* the additive operand pairs C15 lists as permitted
C15_Permitted(kind, lt, rt) ==
    \/ PointerOrArrayToComplete(lt) /\ is_integral(rt)
    \/ kind = "Add" /\ is_integral(lt) /\ PointerOrArrayToComplete(rt)
    \/ is_arithmetic(lt) /\ is_arithmetic(rt)
    \/ kind = "Sub" /\ lt = rt /\ is_pointer_to_complete_object(lt)

\* C15: the additive rule reports InvalidAdd(op, left type, right type)
\* exactly when the operand pair is not one of the permitted ones; the
\* permitted pointer difference yields a node of that pointer type with
\* lval = true, every other additive result has lval = false.
C15_Additive ==
    (IsAddForm /\ OperandsLowered) =>
        Bind2(LoweredLeft.expr.ctype, LoweredRight.expr.ctype, LAMBDA lt, rt :
        Bind(ReportedAfter(Len(LoweredRight.an.error_handler)), LAMBDA reported :
            /\ pc = "done"
            /\ output.expr.k = "Binary"
            /\ IF C15_Permitted(input.k, lt, rt)
               THEN CountKind(reported, "InvalidAdd") = 0
               ELSE reported = <<InvalidAdd(Op(input.k), lt, rt)>>
            /\ IF input.k = "Sub" /\ lt = rt /\ is_pointer_to_complete_object(lt)
               THEN output.lval /\ output.ctype = lt
               ELSE ~ output.lval))

\* C15 witness: p - p, the permitted pointer difference, was lowered to an
\* lvalue of the pointer type without a diagnostic
C15_Witness ==
    /\ pc = "done"
    /\ input = ast_Binary("Sub", ast_Id("p"), ast_Id("p"))
    /\ output.lval /\ is_pointer(output.ctype)
    /\ error_handler = <<>>

IsIntegerOpForm == input.k \in {"BitwiseAnd", "BitwiseOr", "Xor", "Shift"}

\* C16: a bitwise or shift operator reports NonIntegralExpr once exactly when
\* an operand is not integral, with the left operand's type if that is not
\* integral and the right one's otherwise; the operands are then promoted and
\* the returned Binary node has lval = false and the usual arithmetic
\* conversion of the two operand types as its type.
C16_IntegerOp ==
    (IsIntegerOpForm /\ OperandsLowered) =>
        Bind2(LoweredLeft.expr.ctype, LoweredRight.expr.ctype, LAMBDA lt, rt :
        Bind(ReportedAfter(Len(LoweredRight.an.error_handler)), LAMBDA reported :
            /\ pc = "done"
            /\ output.expr.k = "Binary" /\ ~ output.lval
            /\ IF is_integral(lt) /\ is_integral(rt)
               THEN reported = <<>>
               ELSE /\ CountKind(reported, "NonIntegralExpr") = 1
                    /\ reported[1] = NonIntegralExpr(IF is_integral(lt) THEN rt ELSE lt)
            /\ IsUsualArithmeticConversion(output.ctype, lt, rt)))

\* sequence a is a prefix of sequence b
IsPrefix(a, b) == Len(a) <= Len(b) /\ SubSeq(b, 1, Len(a)) = a

\* the untyped tree a is a binary form; its operand trees
IsBinaryAst(a) == a.k \in BinaryKinds \cup {"Shift", "Compare", "Assign"}
LeftOf(a) == IF a.k = "Assign" THEN a.lval ELSE a.left
RightOf(a) == IF a.k = "Assign" THEN a.rval ELSE a.right

\* what lowering tree a alone reports, on the analyzer of the state with an
\* empty diagnostics list
ReportedAlone(a) == parse_expr([Analyzer EXCEPT !.error_handler = <<>>], a).an.error_handler

\* C17: a call only appends to the diagnostics list; for a binary form whose
\* operands are lowered, the list after the call is the list before it, then
\* the diagnostics of the left operand, then those of the right operand, then
\* those of the operator's own rule.
C17_DiagnosticsInLoweringOrder ==
    [][/\ IsPrefix(error_handler, error_handler')
       /\ IsBinaryAst(input') =>
             \/ parse_expr(Analyzer, LeftOf(input')).an.abort
             \/ parse_expr(parse_expr(Analyzer, LeftOf(input')).an, RightOf(input')).an.abort
             \/ IsPrefix(error_handler \o ReportedAlone(LeftOf(input'))
                                       \o ReportedAlone(RightOf(input')),
                         error_handler')]_vars

\* C17 witness: after an earlier call had reported, u << (T + 1.5) reported
\* for its left operand, its right operand and its own rule, in that order
C17_Witness ==
    /\ pc = "done" /\ input = ast_Shift(ast_Id("u"), TypedefSum, TRUE)
    /\ Len(error_handler) = 4
    /\ error_handler[1].k = "NotAssignable"
    /\ SubSeq(error_handler, 2, 4) =
          <<UndeclaredVar("u"), TypedefInExpressionContext, NonIntegralExpr(Type_Double)>>

====
